---- MODULE Spec2Model ----
(***************************************************************************)
(* A model of InlineSVGDirective (src/src/inline-svg.directive.ts): one    *)
(* directive instance, its inputs and private fields, the lifecycle hooks  *)
(* the host calls on it, and the callbacks it subscribes to the SVG cache. *)
(* The cache service, the insertion service and the SVG utilities are      *)
(* collaborators whose code is not part of the directive; they are         *)
(* modelled from their contracts.                                          *)
(*                                                                         *)
(* The world the handlers act on is a record                               *)
(*   w = [dir, els, log, store, reqs, subs, cur, thrown]                   *)
(* dir   the directive's fields                                            *)
(* els   the DOM elements the last step created (handlers share elements   *)
(*       by reference, so an element is a position in this heap)           *)
(* log   everything observable the last step did, in order: fetches,       *)
(*       insertions, script executions, style rewrites, notifications      *)
(* store the cache's ready entries (the parse kept of each URL), reqs its  *)
(*       requests, subs the subscriptions returned to callers              *)
(* cur   the subscription whose callback is running (0: a lifecycle hook)  *)
(*                                                                         *)
(* calls is the URL the instance had at each call that reached _insertSVG, *)
(* last names the previous step and the _prevUrl it started from.          *)
(*                                                                         *)
(* The host may change any input at any time. Each specification lets one  *)
(* group of inputs change and leaves the others at their declared          *)
(* defaults: Spec the policy inputs, SpecCache the cache inputs,           *)
(* SpecTransform the transform inputs, SpecPlacement the placement inputs. *)
(* SpecSymbol loads the URLs that address a symbol of a document.          *)
(***************************************************************************)
EXTENDS Integers, Sequences, FiniteSets, TLC

VARIABLES dir, els, log, store, reqs, subs, calls, last

vars == <<dir, els, log, store, reqs, subs, calls, last>>

----
(* Bounds *)

\* calls of ngOnInit and of ngOnChanges with a new URL; calls holds the
\* URL the instance had at each
MaxLoads == 3

----
(* Inputs *)

NoUrl == ""

Urls == {"a.svg", "b.svg#s"}

\* URLs that address a symbol of b.svg: one it has, one it has not
SymbolUrls == {"b.svg#s", "b.svg#x"}

FallbackUrl == "fallback.png"

Platforms == {"browser", "server", "other"}

\* platformId and what SvgUtil.isSvgSupported() answers there; on a server
\* the directive never reads the answer to any effect (lines 69, 95)
Environments ==
  {<<"browser", TRUE>>, <<"browser", FALSE>>, <<"server", FALSE>>,
   <<"other", TRUE>>, <<"other", FALSE>>}

EvalPolicies == {"always", "once", "never"}

\* what the caller's onSVGLoaded does: unset (as a hook that returns its
\* argument), returns another element, returns nothing
Hooks == {"unset", "other", "null"}

AttrLists == {"unset", "id"}

\* The document behind a URL (the part before '#')
BaseOf(u) == IF u \in SymbolUrls THEN "b.svg" ELSE u

\* url.split('#')[1]
FragmentOf(u) ==
  CASE u = "b.svg#s" -> "s"
    [] u = "b.svg#x" -> "x"
    [] OTHER -> ""

\* The parsed document of each file: the types of its <script> children,
\* the ids of its symbols, the attributes of its root.
ParsedSvg(base) ==
  IF base = "a.svg"
  THEN [kind |-> "svg", src |-> "a.svg", symbol |-> "",
        scripts |-> <<"", "text/template", "application/javascript">>,
        symbols |-> {}, attrs |-> {"id", "viewBox"}, styled |-> 0]
  ELSE [kind |-> "svg", src |-> "b.svg", symbol |-> "",
        scripts |-> <<"application/ecmascript">>,
        symbols |-> {"s"}, attrs |-> {"id"}, styled |-> 0]

NullEl == 0

\* the element a hook that builds its own element returns
HookSvg ==
  [kind |-> "svg", src |-> "hook", symbol |-> "", scripts |-> <<"">>,
   symbols |-> {}, attrs |-> {}, styled |-> 0]

\* the most eligible <script> children a document has
MaxScripts == 2

----
(* Helpers on the world record *)

\* thrown: an exception is propagating out of the running handler
World == [dir |-> dir, els |-> <<>>, log |-> <<>>, store |-> store,
          reqs |-> reqs, subs |-> subs, cur |-> 0, thrown |-> FALSE]

Throw(w) == [w EXCEPT !.thrown = TRUE]

Emit(w, entry) == [w EXCEPT !.log = Append(@, [by |-> w.cur] @@ entry)]

\* allocate a new element on the heap; its reference is Len(els)
Alloc(w, el) == [w EXCEPT !.els = Append(@, el)]

isPlatformBrowser(p) == p = "browser"

isPlatformServer(p) == p = "server"

----
(* The directive *)

\* fields as the class declares them (lines 31-56)
NewDirective ==
  [phase |-> "new", platformId |-> "browser", supportsSVG |-> TRUE,
   inlineSVG |-> NoUrl, replaceContents |-> TRUE, prepend |-> FALSE,
   injectComponent |-> FALSE, cacheSVG |-> TRUE,
   removeSVGAttributes |-> "unset", forceEvalStyles |-> FALSE,
   evalScripts |-> "always", fallbackImgUrl |-> NoUrl,
   onSVGLoaded |-> "unset",
   prevUrl |-> NoUrl, ranScripts |-> {}, subscription |-> 0,
   svgComp |-> FALSE, inited |-> FALSE]

\* an insertion that knows only the raw path and the declared defaults
InsertElRaw(w, el) ==
  Emit(w, [t |-> "insert", path |-> "raw", el |-> el,
           replaceContents |-> TRUE, prepend |-> FALSE])

\* _insertEl: the component path or the raw path, both with the flags the
\* instance has now. The sink is opaque: it takes whatever it is handed,
\* a missing element included.
InsertEl(w, el) ==
  IF w.dir.injectComponent
  THEN Emit([w EXCEPT !.dir.svgComp = TRUE],
            [t |-> "insert", path |-> "component", el |-> el,
             replaceContents |-> w.dir.replaceContents,
             prepend |-> w.dir.prepend])
  ELSE Emit(w, [t |-> "insert", path |-> "raw", el |-> el,
                replaceContents |-> w.dir.replaceContents,
                prepend |-> w.dir.prepend])

\* a failure path that forgets the fallback image
FailNoImage(w, msg) == Emit(w, [t |-> "failed", msg |-> msg])

\* _fail: notify, then insert the fallback image if one is configured
Fail(w, msg) ==
  LET w1 == Emit(w, [t |-> "failed", msg |-> msg])
  IN IF w1.dir.fallbackImgUrl # NoUrl
     THEN LET w2 == Alloc(w1, [kind |-> "img", src |-> w1.dir.fallbackImgUrl])
          IN InsertEl(w2, Len(w2.els))
     ELSE w1

\* SvgUtil.isUrlSymbol
isUrlSymbol(u) == FragmentOf(u) # ""

\* SvgUtil.createSymbolSvg: a standalone wrapper around the symbol, or
\* SymbolNotFound
createSymbolSvg(w, ref, symbolId) ==
  IF symbolId \in w.els[ref].symbols
  THEN Alloc(w, [kind |-> "svg", src |-> w.els[ref].src, symbol |-> symbolId,
                 scripts |-> <<>>, symbols |-> {}, attrs |-> {"viewBox"},
                 styled |-> 0])
  ELSE Throw(w)

\* SvgUtil.removeAttributes: from the root only
removeAttributes(w, ref, names) ==
  [w EXCEPT !.els[ref].attrs = @ \ (IF names = "id" THEN {"id"} ELSE {})]

\* the type test of line 201
Eligible(scriptType) ==
  scriptType \in {"", "application/ecmascript", "application/javascript"}

RECURSIVE SelectTypes(_, _)
\* the subsequence of script types that are / are not eligible
SelectTypes(types, want) ==
  IF types = <<>> THEN <<>>
  ELSE IF Eligible(Head(types)) = want
       THEN <<Head(types)>> \o SelectTypes(Tail(types), want)
       ELSE SelectTypes(Tail(types), want)

\* a stripping that reaches every document in memory, not only svg
StripScriptsOfAll(w, ref) ==
  [w EXCEPT !.els = [i \in DOMAIN w.els |->
                       IF w.els[i].kind = "svg"
                       THEN [w.els[i] EXCEPT !.scripts = SelectTypes(@, FALSE)]
                       ELSE w.els[i]]]

\* lines 198-206: the scripts to evaluate are collected and removed
StripScripts(w, ref) ==
  [w EXCEPT !.els[ref].scripts = SelectTypes(@, FALSE)]

\* a gate that forgets the policy
ShouldRunAny(d, n) == n > 0

\* lines 209-210: whether the collected scripts run
ShouldRun(d, n) ==
  n > 0 /\ (d.evalScripts = "always" \/
            (d.evalScripts = "once" /\ d.inlineSVG \notin d.ranScripts))

RECURSIVE RunScripts(_, _, _, _, _)
\* lines 211-213: scripts i..n of the document src run in order; script
\* number thr throws
RunScripts(w, src, i, n, thr) ==
  IF i > n THEN w
  ELSE IF i = thr THEN Throw(Emit(w, [t |-> "exec", src |-> src, idx |-> i, threw |-> TRUE]))
  ELSE RunScripts(Emit(w, [t |-> "exec", src |-> src, idx |-> i, threw |-> FALSE]),
                  src, i + 1, n, thr)

\* line 215
MarkRan(w) == [w EXCEPT !.dir.ranScripts = @ \cup {w.dir.inlineSVG}]

\* _evalScripts
EvalScripts(w, ref, thr) ==
  IF ~isPlatformBrowser(w.dir.platformId) THEN w
  ELSE IF ref = NullEl THEN Throw(w)
  ELSE LET n  == Len(SelectTypes(w.els[ref].scripts, TRUE))
           w1 == Emit(StripScripts(w, ref), [t |-> "strip", el |-> ref])
       IN IF ShouldRun(w1.dir, n)
          THEN LET w2 == RunScripts(w1, w1.els[ref].src, 1, n, thr)
               IN IF w2.thrown THEN w2 ELSE MarkRan(w2)
          ELSE w1

\* lines 138-140: the element the caller's hook hands back
ApplyHook(w, ref) ==
  CASE w.dir.onSVGLoaded = "other" -> Alloc(w, HookSvg)
    [] OTHER -> w

HookResult(w, ref) ==
  CASE w.dir.onSVGLoaded = "other" -> Len(w.els) + 1
    [] w.dir.onSVGLoaded = "null" -> NullEl
    [] OTHER -> ref

\* lines 148-151
ForceEvalStyles(w, ref) ==
  IF ~w.dir.forceEvalStyles THEN w
  ELSE IF ref = NullEl THEN Throw(w)
  ELSE Emit([w EXCEPT !.els[ref].styled = 1], [t |-> "style", el |-> ref])

\* the steps in another order: scripts and styles first, the sink after
FinishSvgEvalFirst(w, ref, thr) ==
  LET w1 == EvalScripts(w, ref, thr)
      w2 == IF w1.thrown THEN w1 ELSE ForceEvalStyles(w1, ref)
      w3 == IF w2.thrown THEN w2 ELSE InsertEl(w2, ref)
  IN IF w3.thrown THEN w3 ELSE Emit(w3, [t |-> "inserted", el |-> ref])

\* lines 142-153, on the element the hook left
FinishSvg(w, ref, thr) ==
  LET w1 == InsertEl(w, ref)
      w2 == EvalScripts(w1, ref, thr)
      w3 == IF w2.thrown THEN w2 ELSE ForceEvalStyles(w2, ref)
  IN IF w3.thrown THEN w3 ELSE Emit(w3, [t |-> "inserted", el |-> ref])

\* _processSvg
ProcessSvg(w, ref, thr) ==
  IF ref = NullEl THEN w
  ELSE LET w1 == IF w.dir.removeSVGAttributes # "unset"
                    /\ isPlatformBrowser(w.dir.platformId)
                 THEN removeAttributes(w, ref, w.dir.removeSVGAttributes)
                 ELSE w
       IN FinishSvg(ApplyHook(w1, ref), HookResult(w1, ref), thr)

\* the subscriber's success callback (lines 111-118): svg is the
\* consumer's element
OnSvg(w, ref, thr) ==
  IF isUrlSymbol(w.dir.inlineSVG)
  THEN LET symbolId == FragmentOf(w.dir.inlineSVG)
           w1 == createSymbolSvg(Emit(w, [t |-> "symbol", id |-> symbolId]),
                                 ref, symbolId)
       IN IF w1.thrown THEN w1 ELSE ProcessSvg(w1, Len(w1.els), thr)
  ELSE ProcessSvg(w, ref, thr)

\* the subscriber's error callback (lines 119-121)
OnError(w, err) == Fail(w, err)

----
(* The cache service: get(url, useCache), and the subscription it returns *)

\* ran: the scripts its callback has executed
NewSub(url, cfgCache, r) ==
  [url |-> url, cfgCache |-> cfgCache, req |-> r,
   closed |-> FALSE, done |-> FALSE, ok |-> FALSE, ran |-> 0]

\* the pending shared requests for url
PendingFor(w, url) ==
  {r \in 1..Len(w.reqs) :
     w.reqs[r].url = url /\ w.reqs[r].kind = "shared" /\ ~w.reqs[r].done}

\* a new request of the given kind with one waiter, the new subscription
NewReq(w, url, cfgCache, kind) ==
  LET k == Len(w.subs) + 1
      r == Len(w.reqs) + 1
      w1 == [w EXCEPT
               !.reqs = Append(@, [url |-> url, kind |-> kind,
                                   waiters |-> <<k>>, done |-> FALSE]),
               !.subs = Append(@, NewSub(url, cfgCache, r))]
  IN IF kind = "hit" THEN w1
     ELSE Emit(w1, [t |-> "fetch", url |-> url, req |-> r])

\* get(url, useCache) and subscribe: the new subscription is Len(subs).
\* The answer always comes in a later step (get -> async ParsedSvg), also
\* from a ready entry.
GetSVG(w0, url, useCache, cfgCache) ==
  LET w == Emit(w0, [t |-> "get", url |-> url, useCache |-> useCache]) IN
  IF ~useCache THEN NewReq(w, url, cfgCache, "fresh")
  ELSE IF url \in DOMAIN w.store THEN NewReq(w, url, cfgCache, "hit")
  ELSE IF PendingFor(w, url) # {}
  THEN LET r == CHOOSE x \in PendingFor(w, url) : TRUE
           k == Len(w.subs) + 1
       IN [w EXCEPT !.reqs[r].waiters = Append(@, k),
                    !.subs = Append(@, NewSub(url, cfgCache, r))]
  ELSE NewReq(w, url, cfgCache, "shared")

\* Subscription.unsubscribe
Unsubscribe(w, k) == [w EXCEPT !.subs[k].closed = TRUE]

----
(* The directive's handlers *)

\* a call that always asks for a fresh fetch
UseCacheArgNever(d) == FALSE

\* a call that always goes through the store
UseCacheArgAlways(d) == TRUE

\* the useCache argument of line 109
UseCacheArg(d) == d.cacheSVG

\* lines 107-122: remember the URL, ask the cache, keep the subscription
StartLoad(w) ==
  LET w1 == [w EXCEPT !.dir.prevUrl = w.dir.inlineSVG]
      w2 == GetSVG(w1, w1.dir.inlineSVG, UseCacheArg(w1.dir),
                   w1.dir.cacheSVG)
  IN [w2 EXCEPT !.dir.subscription = Len(w2.subs)]

\* a short circuit that never fires
UrlUnchangedNever(d) == FALSE

\* line 104
UrlUnchanged(d) == d.inlineSVG = d.prevUrl

\* a test of the environment that never fires
UnsupportedNever(d) == FALSE

\* line 69, line 95
Unsupported(d) == ~isPlatformServer(d.platformId) /\ ~d.supportsSVG

\* a check for the URL that never fires
MissingUrlNever(d) == FALSE

\* line 98
MissingUrl(d) == d.inlineSVG = NoUrl

\* _insertSVG
InsertSVG(w) ==
  IF Unsupported(w.dir) THEN w
  ELSE IF MissingUrl(w.dir) THEN Fail(w, "No URL passed to [inlineSVG]")
  ELSE IF UrlUnchanged(w.dir) THEN w
  ELSE StartLoad(w)

\* line 75, line 81
NoPlatform(d) ==
  ~isPlatformBrowser(d.platformId) /\ ~isPlatformServer(d.platformId)

\* ngOnDestroy
Destroy(w) ==
  IF w.dir.subscription # 0 THEN Unsubscribe(w, w.dir.subscription) ELSE w

\* the scripts that ran to the end in the callback of subscription k
Executed(l, k) ==
  Len(SelectSeq(l, LAMBDA e : e.t = "exec" /\ e.by = k /\ ~e.threw))

\* the cache's copy of its parse for one consumer: a new element, whose
\* reference is Len(els)
cloneNode(w, parse) ==
  Emit(Alloc(w, w.els[parse]), [t |-> "clone", doc |-> w.els[parse]])

\* the cache hands subscription k its result, a clone of its parse or the
\* error: the callback runs unless the subscription was closed
Deliver(w, k, ok, parse, thr) ==
  IF w.subs[k].closed
  THEN [w EXCEPT !.subs[k].done = TRUE, !.subs[k].ok = ok]
  ELSE LET w0 == [w EXCEPT !.thrown = FALSE]
           w1 == IF ok
                 THEN LET c == cloneNode(w0, parse)
                      IN OnSvg([c EXCEPT !.cur = k], Len(c.els), thr)
                 ELSE OnError([w0 EXCEPT !.cur = k], "FetchError")
       IN [w1 EXCEPT !.thrown = FALSE, !.cur = 0,
                     !.subs[k] = [@ EXCEPT !.done = TRUE, !.ok = ok,
                                    !.ran = Executed(w1.log, k)]]

RECURSIVE DeliverAll(_, _, _, _, _)
\* all waiters of a request resolve together, in the order they subscribed
DeliverAll(w, waiters, ok, parse, thr) ==
  IF waiters = <<>> THEN w
  ELSE DeliverAll(Deliver(w, Head(waiters), ok, parse, thr), Tail(waiters),
                  ok, parse, thr)

\* request r settles. On success the cache has one parse of the document
\* in memory, the new one or the one of its ready entry; every waiter gets
\* a clone of it, and a shared fetch leaves it as the ready entry. The
\* entry is that one object, so it is read back when the callbacks have
\* run. On failure there is no entry.
SettleReq(w, r, ok, thr) ==
  LET url == w.reqs[r].url
      w1 == [w EXCEPT !.reqs[r].done = TRUE]
      w2 == IF ~ok THEN w1
            ELSE IF w.reqs[r].kind = "hit" THEN Alloc(w1, w.store[url])
            ELSE Alloc(w1, ParsedSvg(BaseOf(url)))
      parse == Len(w2.els)
      w3 == DeliverAll(w2, w.reqs[r].waiters, ok, parse, thr)
  IN IF ok /\ w.reqs[r].kind # "fresh"
     THEN [w3 EXCEPT !.store = (url :> w3.els[parse]) @@ w.store]
     ELSE w3

----
(* Actions *)

Become(w, l) ==
  /\ dir' = w.dir /\ els' = w.els /\ log' = w.log /\ store' = w.store
  /\ reqs' = w.reqs /\ subs' = w.subs
  /\ last' = l

\* what the previous step was, and what held before it
Last(op, arg) == [op |-> op, arg |-> arg, req |-> 0, prevUrl |-> dir.prevUrl]

Init ==
  /\ dir = NewDirective
  /\ els = <<>> /\ log = <<>> /\ store = <<>> /\ reqs = <<>> /\ subs = <<>>
  /\ calls = <<>>
  /\ last = [op |-> "none", arg |-> "", req |-> 0, prevUrl |-> NoUrl]

\* constructor (lines 58-72)
Constructor(p, s) ==
  /\ dir.phase = "new"
  /\ LET w == [World EXCEPT !.dir.phase = "alive", !.dir.platformId = p,
                            !.dir.supportsSVG = s]
     IN Become(IF Unsupported(w.dir)
               THEN Fail(w, "Embed SVG are not supported by this browser")
               ELSE w,
               Last("constructor", p))
  /\ UNCHANGED calls

\* ngOnInit (lines 74-78)
ngOnInit ==
  /\ dir.phase = "alive" /\ ~dir.inited
  /\ Len(calls) < MaxLoads
  /\ calls' = Append(calls, dir.inlineSVG)
  /\ LET w == [World EXCEPT !.dir.inited = TRUE]
     IN Become(IF NoPlatform(w.dir) THEN w ELSE InsertSVG(w),
               Last("load", "ngOnInit"))

\* ngOnChanges with changes['inlineSVG'] (lines 80-86): the binding has
\* set the new URL
ngOnChangesUrl(u) ==
  /\ dir.phase = "alive"
  /\ u # dir.inlineSVG
  /\ Len(calls) < MaxLoads
  /\ calls' = Append(calls, u)
  /\ LET w == [World EXCEPT !.dir.inlineSVG = u]
     IN Become(IF NoPlatform(w.dir) THEN w ELSE InsertSVG(w),
               Last("load", "ngOnChanges"))

\* ngOnChanges without changes['inlineSVG']: the binding has set another
\* input and nothing is loaded
ngOnChangesInput(f, v) ==
  /\ dir.phase = "alive"
  /\ v # dir[f]
  /\ Become([World EXCEPT !.dir[f] = v], Last("input", ""))
  /\ UNCHANGED calls

\* ngOnDestroy (lines 88-92)
ngOnDestroy ==
  /\ dir.phase = "alive"
  /\ Become(Destroy([World EXCEPT !.dir.phase = "destroyed"]),
            Last("destroy", ""))
  /\ UNCHANGED calls

\* a request of the cache settles, with the document or with an error
Settle(r, ok, thr) ==
  /\ r \in 1..Len(reqs) /\ ~reqs[r].done
  /\ reqs[r].kind = "hit" => ok
  /\ Become(SettleReq(World, r, ok, thr),
            [Last("settle", reqs[r].url) EXCEPT !.req = r])
  /\ UNCHANGED calls

InputValues(f) ==
  CASE f = "replaceContents" -> BOOLEAN
    [] f = "prepend" -> BOOLEAN
    [] f = "injectComponent" -> BOOLEAN
    [] f = "cacheSVG" -> BOOLEAN
    [] f = "forceEvalStyles" -> BOOLEAN
    [] f = "removeSVGAttributes" -> AttrLists
    [] f = "evalScripts" -> EvalPolicies
    [] f = "fallbackImgUrl" -> {NoUrl, FallbackUrl}
    [] f = "onSVGLoaded" -> Hooks

\* the inputs that decide what is run and reported
PolicyInputs == {"evalScripts", "fallbackImgUrl", "onSVGLoaded"}

\* the inputs that decide what is fetched and reported
CacheInputs == {"cacheSVG", "fallbackImgUrl"}

\* the inputs that decide what is done to the element
TransformInputs ==
  {"onSVGLoaded", "removeSVGAttributes", "forceEvalStyles", "evalScripts"}

\* the inputs that decide how an element is placed
PlacementInputs ==
  {"replaceContents", "prepend", "injectComponent", "fallbackImgUrl"}

Load ==
  \/ ngOnInit
  \/ \E u \in Urls \cup {NoUrl} : ngOnChangesUrl(u)

Step ==
  \/ \E e \in Environments : Constructor(e[1], e[2])
  \/ Load
  \/ ngOnDestroy
  \/ \E r \in 1..Len(reqs) :
       \/ \E thr \in 0..MaxScripts : Settle(r, TRUE, thr)
       \/ Settle(r, FALSE, 0)

Next ==
  \/ Step
  \/ \E f \in PolicyInputs : \E v \in InputValues(f) : ngOnChangesInput(f, v)

NextCache ==
  \/ Step
  \/ \E f \in CacheInputs : \E v \in InputValues(f) : ngOnChangesInput(f, v)

NextTransform ==
  \/ Step
  \/ \E f \in TransformInputs : \E v \in InputValues(f) : ngOnChangesInput(f, v)

NextPlacement ==
  \/ Step
  \/ \E f \in PlacementInputs : \E v \in InputValues(f) : ngOnChangesInput(f, v)

\* the host loads URLs that address a symbol and changes the fallback
NextSymbol ==
  \/ \E e \in Environments : Constructor(e[1], e[2])
  \/ ngOnInit
  \/ \E u \in SymbolUrls \cup {NoUrl} : ngOnChangesUrl(u)
  \/ ngOnDestroy
  \/ \E r \in 1..Len(reqs) :
       \/ \E thr \in 0..MaxScripts : Settle(r, TRUE, thr)
       \/ Settle(r, FALSE, 0)
  \/ \E v \in InputValues("fallbackImgUrl") :
       ngOnChangesInput("fallbackImgUrl", v)

\* the host changes the policy inputs at will
Spec == Init /\ [][Next]_vars

\* the host changes the cache inputs at will
SpecCache == Init /\ [][NextCache]_vars

\* the host changes the transform inputs at will
SpecTransform == Init /\ [][NextTransform]_vars

\* the host changes the placement inputs at will
SpecPlacement == Init /\ [][NextPlacement]_vars

SpecSymbol == Init /\ [][NextSymbol]_vars

----
(* What a step did, read from its log *)

\* the entries of kind t
Kind(l, t) == SelectSeq(l, LAMBDA e : e.t = t)

\* the entries the callback of subscription k made
By(l, k) == SelectSeq(l, LAMBDA e : e.by = k)

Has(l, t) == \E i \in DOMAIN l : l[i].t = t

Subs == 1..Len(subs)

\* the environments in which _insertSVG accepts a load
Accepting == dir.phase # "new" /\ ~Unsupported(dir) /\ ~NoPlatform(dir)

\* the subscriptions the last step, a settling request, resolved
Resolved == {k \in Subs : last.op = "settle" /\ subs[k].req = last.req}

\* a load for another URL was issued after subscription k
Superseded(k) == \E j \in Subs : j > k /\ subs[j].url # subs[k].url

----
(* The claims *)

\* C1: a load call whose (non-empty) URL equals the URL the instance loaded
\* before does nothing: no cache request, no fetch, no insertion, no
\* notification, whatever the other inputs have become in between.
C1_SameUrlNoOp ==
  (last.op = "load" /\ dir.inlineSVG # NoUrl /\ dir.inlineSVG = last.prevUrl)
    => (log = <<>> /\ els = <<>>)

\* C1 happens: scripts ran when the URL was first loaded, the policy was
\* then changed to never, and the URL is loaded again
C1_Witness ==
  /\ last.op = "load" /\ dir.inlineSVG # NoUrl
  /\ dir.inlineSVG = last.prevUrl
  /\ dir.evalScripts = "never"
  /\ \E k \in Subs : subs[k].url = dir.inlineSVG /\ subs[k].ran > 0

\* C2: a result that arrives for a URL after a load of another URL was
\* issued is discarded: its callback inserts nothing, runs no script and
\* notifies nobody.
C2_StaleResultDiscarded ==
  \A k \in Resolved : Superseded(k) => By(log, k) = <<>>

\* C3: two loads of one URL, both made with cacheSVG set, the second while
\* the first is pending, share one request: the second starts no fetch, no
\* two such fetches are ever in flight, and both resolve together.
C3_OneFetchPerUrl ==
  \A j, k \in Subs :
    (j < k /\ subs[j].url = subs[k].url /\ subs[j].cfgCache /\ subs[k].cfgCache)
      => /\ (~subs[j].done /\ ~subs[k].done) => subs[j].req = subs[k].req
         /\ (~subs[j].done /\ k = Len(subs) /\ last.op = "load" /\ Has(log, "get"))
              => ~Has(log, "fetch")
         /\ subs[j].req = subs[k].req
              => (subs[j].done = subs[k].done /\ subs[j].ok = subs[k].ok)

\* C3 happens: two loads of one URL shared a request and both were handed
\* the document
C3_Witness ==
  \E j, k \in Subs :
    /\ j < k /\ subs[j].url = subs[k].url /\ subs[j].cfgCache /\ subs[k].cfgCache
    /\ subs[j].req = subs[k].req /\ reqs[subs[j].req].kind = "shared"
    /\ subs[j].done /\ subs[j].ok /\ subs[k].done /\ subs[k].ok

\* the rounds of script evaluation the loads of a.svg got: each round runs
\* its two eligible scripts
Rounds(k) == subs[k].ran \div 2

\* a.svg was loaded twice in succession on a browser, its fetch has just
\* been answered with the document, and no script threw
TwoLoadsDone ==
  /\ dir.platformId = "browser" /\ calls = <<"a.svg", "a.svg">>
  /\ dir.onSVGLoaded = "unset"
  /\ last.op = "settle" /\ subs[1].done /\ subs[1].ok /\ ~subs[1].closed
  /\ \A i \in DOMAIN log : log[i].t = "exec" => ~log[i].threw

\* C4 as stated: two successive loads of one URL run its scripts once under
\* "once", twice under "always", never under "never".
C4_RunsPerPolicy ==
  TwoLoadsDone =>
    /\ \A k \in Subs \ {1} : subs[k].done
    /\ Rounds(1) + (IF Len(subs) > 1 THEN Rounds(2) ELSE 0)
         = CASE dir.evalScripts = "once" -> 1
             [] dir.evalScripts = "always" -> 2
             [] OTHER -> 0

\* C4 amended: the second of two successive loads of one URL asks the cache
\* for nothing, so the scripts run once under "once" and under "always",
\* never under "never".
C4_RunsOncePerUrl ==
  /\ (dir.platformId = "browser" /\ Accepting /\ calls = <<"a.svg", "a.svg">>)
       => Len(subs) = 1
  /\ TwoLoadsDone => Rounds(1) = IF dir.evalScripts = "never" THEN 0 ELSE 1

\* C4 happens: under "always", after two loads of a.svg
C4_Witness == TwoLoadsDone /\ dir.evalScripts = "always" /\ subs[1].ran = 2

\* the load of subscription k ended in failure and the URL was not asked
\* for again before the last step
FailedBefore(k) ==
  /\ subs[k].done /\ ~subs[k].ok /\ ~subs[k].closed
  /\ \A j \in Subs :
       (j > k /\ subs[j].url = subs[k].url)
         => (j = Len(subs) /\ ~subs[j].done /\ Has(log, "get"))

\* C5: a failure is not remembered: the load call that follows a failed
\* load of the same URL asks the cache again.
C5_FailedUrlRetried ==
  (/\ last.op = "load" /\ Accepting /\ dir.inlineSVG # NoUrl
   /\ \E k \in Subs : subs[k].url = dir.inlineSVG /\ FailedBefore(k))
    => Has(log, "get")

\* the callback of subscription k ran: it was open when its request settled
Called(k) == k \in Resolved /\ ~subs[k].closed

ScriptThrew(k) == \E i \in DOMAIN log : log[i].by = k /\ log[i].t = "exec" /\ log[i].threw

\* C6: a load whose fetch settles ends in exactly one notification, of
\* success or of failure, never both and never neither, unless a script of
\* the document threw. (Stated for the load the instance asked for last,
\* with the URL it still has.)
C6_OneOutcome ==
  \A k \in Subs :
    (Called(k) /\ k = dir.subscription /\ subs[k].url = dir.inlineSVG
       /\ ~ScriptThrew(k))
      => Len(Kind(By(log, k), "inserted")) + Len(Kind(By(log, k), "failed")) = 1

\* the insertions the callback of k made
Inserts(k) == Kind(By(log, k), "insert")

\* C7: a failed fetch is notified exactly once with its reason, and with a
\* fallback URL configured the sink gets exactly one image with that src;
\* with none it gets nothing.
C7_FetchFailure ==
  \A k \in Subs :
    (Called(k) /\ ~subs[k].ok)
      => /\ Kind(By(log, k), "failed") = <<[by |-> k, t |-> "failed", msg |-> "FetchError"]>>
         /\ ~Has(By(log, k), "inserted")
         /\ IF dir.fallbackImgUrl # NoUrl
            THEN /\ Len(Inserts(k)) = 1
                 /\ els[Inserts(k)[1].el] = [kind |-> "img", src |-> dir.fallbackImgUrl]
            ELSE Inserts(k) = <<>>

\* C7 happens: a fetch failed with a fallback configured and the component
\* path chosen
C7_Witness ==
  \E k \in Subs :
    /\ Called(k) /\ ~subs[k].ok /\ dir.fallbackImgUrl # NoUrl
    /\ dir.injectComponent /\ Len(Inserts(k)) = 1

\* C8: after a successful load the inserted element holds no script of an
\* eligible type, whatever the policy.
C8_NoScriptLeft ==
  \A i \in DOMAIN log :
    (log[i].t = "inserted" /\ log[i].el # NullEl)
      => SelectTypes(els[log[i].el].scripts, TRUE) = <<>>

\* C9: a load call without a URL fails at once: one failure notification
\* with the MissingUrl reason, no request to the cache, nothing left pending
\* for it.
C9_MissingUrl ==
  (last.op = "load" /\ Accepting /\ dir.inlineSVG = NoUrl)
    => /\ Kind(log, "failed")
            = <<[by |-> 0, t |-> "failed", msg |-> "No URL passed to [inlineSVG]"]>>
       /\ ~Has(log, "get") /\ ~Has(log, "fetch") /\ ~Has(log, "inserted")
       /\ \A k \in Subs : subs[k].url # NoUrl

\* C9 happens: on a server, with other loads made before
C9_Witness ==
  /\ last.op = "load" /\ Accepting /\ dir.inlineSVG = NoUrl
  /\ dir.platformId = "server" /\ Len(subs) > 0 /\ Has(log, "failed")

\* C10: no result that arrives after ngOnDestroy is inserted, evaluated or
\* notified.
C10_NothingAfterDestroy ==
  (last.op = "settle" /\ dir.phase = "destroyed") => log = <<>>

\* the elements the last step reported as inserted
Inserted == {log[i].el : i \in {j \in DOMAIN log : log[j].t = "inserted"}} \ {NullEl}

HookReached(k) == Called(k) /\ subs[k].ok /\ subs[k].url = dir.inlineSVG

\* C12: a hook that returns nothing ends the load as a failure: one failure
\* notification, no success notification, nothing but a fallback image
\* handed to the sink. A hook that returns an element has that element
\* inserted and, unless a script threw, emitted.
C12_HookResult ==
  \A k \in Subs :
    HookReached(k) =>
      /\ dir.onSVGLoaded = "null" =>
           /\ Len(Kind(By(log, k), "failed")) = 1
           /\ ~Has(By(log, k), "inserted")
           /\ \A i \in DOMAIN Inserts(k) :
                Inserts(k)[i].el # NullEl /\ els[Inserts(k)[i].el].kind = "img"
      /\ dir.onSVGLoaded = "other" =>
           /\ Len(Inserts(k)) = 1 /\ els[Inserts(k)[1].el].src = "hook"
           /\ \A i \in DOMAIN log :
                (log[i].by = k /\ log[i].t = "inserted")
                  => log[i].el = Inserts(k)[1].el
           /\ ~ScriptThrew(k) => Has(By(log, k), "inserted")

\* the callback of k was handed the document of a URL whose fragment
\* names no symbol of it, and the instance still has that URL
SymbolMissing(k) ==
  /\ Called(k) /\ subs[k].ok /\ subs[k].url = dir.inlineSVG
  /\ isUrlSymbol(subs[k].url)
  /\ FragmentOf(subs[k].url) \notin ParsedSvg(BaseOf(subs[k].url)).symbols

\* C13: a load whose URL names a symbol the document does not have ends as
\* a failure: one failure notification, the fallback image if one is
\* configured, and no element inserted as a success.
C13_SymbolNotFound ==
  \A k \in Subs :
    SymbolMissing(k) =>
      /\ Len(Kind(By(log, k), "failed")) = 1
      /\ ~Has(By(log, k), "inserted")
      /\ IF dir.fallbackImgUrl # NoUrl
         THEN /\ Len(Inserts(k)) = 1
              /\ els[Inserts(k)[1].el] = [kind |-> "img", src |-> dir.fallbackImgUrl]
         ELSE Inserts(k) = <<>>

\* the last step was a load call for a URL, made with cacheSVG unset
UncachedLoad ==
  last.op = "load" /\ Accepting /\ dir.inlineSVG # NoUrl /\ ~dir.cacheSVG

\* C14 as stated: every load call for a URL made with cacheSVG unset
\* starts one fetch.
C14_FetchPerLoad == UncachedLoad => Len(Kind(log, "fetch")) = 1

\* C14 amended: every load call made with cacheSVG unset for a URL other
\* than the one the instance loaded before starts one fetch of its own,
\* whatever the cache holds, and no subscription made with cacheSVG unset
\* ever shares a request.
C14_FreshFetchPerLoad ==
  /\ (UncachedLoad /\ dir.inlineSVG # last.prevUrl)
       => /\ Kind(log, "fetch")
                = <<[by |-> 0, t |-> "fetch", url |-> dir.inlineSVG,
                     req |-> Len(reqs)]>>
          /\ subs[Len(subs)].req = Len(reqs)
  /\ \A k \in Subs :
       ~subs[k].cfgCache
         => reqs[subs[k].req].kind = "fresh" /\ reqs[subs[k].req].waiters = <<k>>

\* C14 happens: the cache holds the URL, it is loaded again with cacheSVG
\* unset, and a fetch starts
C14_Witness ==
  /\ UncachedLoad /\ dir.inlineSVG \in DOMAIN store /\ Has(log, "fetch")
  /\ \E k \in Subs : k < Len(subs) /\ subs[k].url = dir.inlineSVG /\ subs[k].ok

\* the instance was constructed where inline SVG cannot be displayed
CannotDisplay ==
  dir.phase # "new" /\ dir.platformId # "server" /\ ~dir.supportsSVG

\* C15: where inline SVG cannot be displayed, the constructor reports it
\* once on the failure channel, and no later step (init, URL change to any
\* URL or to none, input change, destroy) asks the cache for anything,
\* inserts anything or notifies anybody.
C15_UnsupportedOnce ==
  CannotDisplay =>
    /\ reqs = <<>> /\ subs = <<>> /\ els = <<>>
    /\ log = IF last.op = "constructor"
             THEN <<[by |-> 0, t |-> "failed",
                     msg |-> "Embed SVG are not supported by this browser"]>>
             ELSE <<>>

\* C15 happens: in a browser without SVG, with a fallback image
\* configured, after an init without URL and a change to a.svg
C15_Witness ==
  /\ CannotDisplay /\ dir.platformId = "browser"
  /\ last.op = "load" /\ dir.inlineSVG = "a.svg" /\ dir.inited
  /\ dir.fallbackImgUrl # NoUrl /\ Len(calls) > 1 /\ calls[1] = NoUrl

\* the positions of the entries of kind t
Pos(l, t) == {i \in DOMAIN l : l[i].t = t}

\* C16: in a load that ends in success the element is handed to the sink
\* only after its scripts were stripped and run, its styles are
\* re-evaluated after the scripts, and the success notification is the
\* last thing the load does.
C16_StepOrder ==
  \A k \in Subs :
    LET l == By(log, k) IN
    Has(l, "inserted") =>
      /\ \A i \in Pos(l, "insert") :
           \A j \in Pos(l, "strip") \cup Pos(l, "exec") : j < i
      /\ \A i \in Pos(l, "style") :
           \A j \in Pos(l, "strip") \cup Pos(l, "exec") : j < i
      /\ Pos(l, "inserted") = {Len(l)}

\* C17: when a script of a load throws, no later script of that load
\* runs, nothing is reported as failed and no fallback image is inserted,
\* and the element, handed to the sink before, is there without any of its
\* eligible scripts, the ones that never ran included.
C17_FailOpen ==
  \A k \in Subs :
    ScriptThrew(k) =>
      LET l == By(log, k)
          thrower == CHOOSE i \in Pos(l, "exec") : l[i].threw
      IN /\ \A j \in Pos(l, "exec") : j <= thrower /\ l[j].idx <= l[thrower].idx
         /\ ~Has(l, "failed")
         /\ Len(Kind(l, "insert")) = 1
         /\ \A i \in Pos(l, "insert") :
              /\ i < thrower /\ l[i].el # NullEl
              /\ els[l[i].el].kind = "svg"
              /\ SelectTypes(els[l[i].el].scripts, TRUE) = <<>>

\* C17 happens: the first of the two scripts of a.svg threw, with a
\* fallback image configured
C17_Witness ==
  \E k \in Subs :
    /\ ScriptThrew(k) /\ dir.fallbackImgUrl # NoUrl
    /\ Len(SelectTypes(ParsedSvg(BaseOf(subs[k].url)).scripts, TRUE)) = 2
    /\ Kind(By(log, k), "exec")
         = <<[by |-> k, t |-> "exec", src |-> "a.svg", idx |-> 1, threw |-> TRUE]>>

\* C18: every element handed to the sink, loaded document or fallback
\* image, goes the path injectComponent selects at that moment, with the
\* replaceContents and prepend the instance has at that moment.
C18_PlacementFlags ==
  \A i \in Pos(log, "insert") :
    /\ log[i].replaceContents = dir.replaceContents
    /\ log[i].prepend = dir.prepend
    /\ log[i].path = IF dir.injectComponent THEN "component" ELSE "raw"

\* C18 happens: a fallback image goes the component path with both flags
\* changed from their defaults
C18_Witness ==
  \E i \in Pos(log, "insert") :
    /\ els[log[i].el].kind = "img" /\ log[i].path = "component"
    /\ ~log[i].replaceContents /\ log[i].prepend
    /\ last.op = "settle"

\* the callback of k skipped the scripts of the document it was handed:
\* it stripped the document itself, which has eligible scripts, and ran
\* none
Skipped(k) ==
  /\ Called(k) /\ ~Has(By(log, k), "exec")
  /\ \E i \in Pos(log, "strip") :
       /\ log[i].by = k
       /\ els[log[i].el].src = BaseOf(subs[k].url) /\ els[log[i].el].symbol = ""
       /\ SelectTypes(ParsedSvg(BaseOf(subs[k].url)).scripts, TRUE) # <<>>

\* C19: the record of scripts run is kept by the URL the scripts came
\* from: a URL is in it only if a load of that URL ran scripts, and under
\* "once" a load skips its scripts only if another load of the same URL
\* ran them.
C19_RunRecordPerUrl ==
  /\ \A u \in dir.ranScripts : \E k \in Subs : subs[k].url = u /\ subs[k].ran > 0
  /\ \A k \in Subs :
       (Skipped(k) /\ dir.evalScripts = "once")
         => \E j \in Subs \ {k} : subs[j].url = subs[k].url /\ subs[j].ran > 0

\* C20: a symbol is extracted from the document a load is handed if and
\* only if the URL that load asked for names one, and it is the symbol
\* that URL names, whatever URL the instance has when the document comes.
C20_SymbolOfRequestedUrl ==
  \A k \in Subs :
    (Called(k) /\ subs[k].ok)
      => Kind(By(log, k), "symbol")
           = IF isUrlSymbol(subs[k].url)
             THEN <<[by |-> k, t |-> "symbol", id |-> FragmentOf(subs[k].url)]>>
             ELSE <<>>

====
